---- MODULE Spec2Model ----
(***************************************************************************)
(* Model of the research workflow of ai-research-sequence/lambda:          *)
(* ResearchSequenceTask.run_exa_workflow_for_components_sequential, the    *)
(* per-component run_exa_workflow / parallel_exa_extraction with its       *)
(* ThreadPoolExecutor, and the per-citation exa_data_extraction.           *)
(*                                                                         *)
(* The main thread and the pool's worker threads are interleaved one       *)
(* step at a time.  The search endpoint and the LLM endpoint are the       *)
(* environment: what they answer is chosen with \E from small sets.        *)
(***************************************************************************)
EXTENDS Integers, Sequences, FiniteSets, TLC

(***************************************************************************)
(* Bounds of the model.                                                    *)
(***************************************************************************)
\* longest input list of components
MaxComponents == 2
\* most citations one search returns
MaxCites == 3
\* Size of the pool ThreadPoolExecutor() builds when it is given no
\* max_workers: min(32, cpu_count + 4) in CPython.  It does not depend on
\* the number of citations; the model scales it down so that a search can
\* return more citations than the pool has workers.
DefaultMaxWorkers == 2

\* the longest list of components whose infinite behaviours are examined
MaxLiveComponents == 1

Names == {"A", "B"}

\* Python's None, as a value of a dict or an argument
None == "<None>"

Range(s) == {s[j] : j \in 1..Len(s)}

Min(a, b) == IF a < b THEN a ELSE b

(***************************************************************************)
(* Python dicts.  A dict with string keys whose order is not looked at is  *)
(* a function; all_results, whose insertion order is looked at, is a       *)
(* sequence of [key, val] entries.                                         *)
(***************************************************************************)
EmptyDict == [k \in {} |-> None]

\* the mutant of DictUnion: the left operand wins on a collision
DictUnionLeftWins(a, b) ==
    [k \in DOMAIN a \cup DOMAIN b |-> IF k \in DOMAIN a THEN a[k] ELSE b[k]]

\* a | b : the keys of both, the right operand wins on a collision
DictUnion(a, b) ==
    [k \in DOMAIN a \cup DOMAIN b |-> IF k \in DOMAIN b THEN b[k] ELSE a[k]]

\* d.get(k, default)
DictGet(d, k, default) == IF k \in DOMAIN d THEN d[k] ELSE default

\* getattr(obj, attr, default)
Getattr(obj, attr, default) == IF attr \in DOMAIN obj THEN obj[attr] ELSE default

Keys(d) == [j \in 1..Len(d) |-> d[j].key]

HasKey(d, k) == \E j \in 1..Len(d) : d[j].key = k

\* d[k] of an insertion-ordered dict that holds k
Lookup(d, k) == d[CHOOSE j \in 1..Len(d) : d[j].key = k].val

\* the mutant of DictSet that stores every assignment as a new entry
DictSetAppend(d, k, v) == Append(d, [key |-> k, val |-> v])

\* the mutant of DictSet that keeps the value of the first assignment
DictSetDefault(d, k, v) ==
    IF HasKey(d, k) THEN d ELSE Append(d, [key |-> k, val |-> v])

\* d[k] = v : a key the dict holds keeps its place and takes the new value,
\* a new key goes to the end
DictSet(d, k, v) ==
    IF HasKey(d, k)
    THEN [j \in 1..Len(d) |-> IF d[j].key = k THEN [key |-> k, val |-> v] ELSE d[j]]
    ELSE Append(d, [key |-> k, val |-> v])

(***************************************************************************)
(* What run_exa_workflow_for_components_sequential stores under a key:     *)
(* the list run_exa_workflow returned, or None.                            *)
(***************************************************************************)
NullMarker == [null |-> TRUE, recs |-> <<>>]

RecordList(recs) == [null |-> FALSE, recs |-> recs]

(***************************************************************************)
(* PromptFactory.exa_synthesis_prompt: the f-string, as the sequence of    *)
(* its pieces.  str() of None is the text "None".                          *)
(***************************************************************************)
Str(v) == IF v = None THEN "None" ELSE v

exa_synthesis_prompt(text, component) ==
    << "The following text is from a data source:\n", Str(text),
       "\n\nPlease extract a numeric data point for ", Str(component),
       ".\n(DATA_POINT, DATA_SOURCE_OVERVIEW)" >>

(***************************************************************************)
(* PromptFactory: the other templates, the parameters of each and          *)
(* get_prompt.  A call ends with a prompt or with an exception.            *)
(***************************************************************************)
clarifying_questions_prompt(market_description) ==
    << "I want to size the market for: ", Str(market_description),
       ".\n\nBefore generating the formula, are there any clarifying questions?" >>

formula_brainstorm_prompt(market_description) ==
    << "I want to size the market for: ", Str(market_description),
       ".\n\nPlease return a JSON with the following fields:\n\n(steps, formula, clarifications)" >>

datasource_prompt(formula) ==
    << "This is the formula which I want to apply for market modeling:\n\n",
       Str(formula), "\n\nCreate a JSON of all the components of the formula." >>

decompose_formula_prompt(formula) ==
    << "I have a market size formula: ", Str(formula),
       "\n\nDecompose the formula into each individual component / data." >>

\* the keys of router, in the order of the dict literal
RouterKeys ==
    << "clarifying_questions_prompt", "formula_brainstorm_prompt",
       "datasource_prompt", "exa_synthesis_prompt", "decompose_formula_prompt" >>

\* the parameters of the static method of each name; none has a default
Parameters(name) ==
    CASE name = "clarifying_questions_prompt" -> {"market_description"}
      [] name = "formula_brainstorm_prompt" -> {"market_description"}
      [] name = "datasource_prompt" -> {"formula"}
      [] name = "exa_synthesis_prompt" -> {"text", "component"}
      [] name = "decompose_formula_prompt" -> {"formula"}

\* the body of the static method, for arguments that fit its parameters
Render(name, args) ==
    CASE name = "clarifying_questions_prompt" ->
           clarifying_questions_prompt(args["market_description"])
      [] name = "formula_brainstorm_prompt" ->
           formula_brainstorm_prompt(args["market_description"])
      [] name = "datasource_prompt" -> datasource_prompt(args["formula"])
      [] name = "exa_synthesis_prompt" ->
           exa_synthesis_prompt(args["text"], args["component"])
      [] name = "decompose_formula_prompt" ->
           decompose_formula_prompt(args["formula"])

\* the mutant of CallTemplate whose parameters default to the empty string
\* and which takes any further keyword
CallTemplateWithDefaults(name, args) ==
    [exc |-> "none",
     text |-> Render(name, [a \in Parameters(name) |-> DictGet(args, a, "")])]

\* router[name](**kwargs): Python raises TypeError for a parameter that
\* gets no argument and for a keyword that is no parameter
CallTemplate(name, args) ==
    IF DOMAIN args # Parameters(name)
    THEN [exc |-> "TypeError", text |-> << >>]
    ELSE [exc |-> "none", text |-> Render(name, args)]

\* the mutant of get_prompt that looks the method up with getattr
get_prompt_by_getattr(name, args) ==
    IF name \notin Range(RouterKeys)
    THEN IF args = EmptyDict
         THEN [exc |-> "AttributeError", text |-> << >>]
         ELSE [exc |-> "TypeError", text |-> << >>]
    ELSE CallTemplate(name, args)

\* get_prompt: a name that is no key of router raises ValueError with the
\* keys in its message, before the arguments are looked at
get_prompt(name, args) ==
    IF name \notin Range(RouterKeys)
    THEN [exc |-> "ValueError",
          text |-> << "Unknown prompt name '", name, "'. Valid options: " >>
                   \o RouterKeys]
    ELSE CallTemplate(name, args)

(***************************************************************************)
(* The environment.                                                        *)
(***************************************************************************)
\* the k-th citation of a search result; one in three has no text
\* attribute and one in three has no title attribute
Citation(k) ==
    IF k % 3 = 2 THEN [title |-> "t" \o ToString(k), url |-> "u" \o ToString(k)]
    ELSE IF k % 3 = 0 THEN [url |-> "u" \o ToString(k), text |-> "x" \o ToString(k)]
    ELSE [title |-> "t" \o ToString(k), url |-> "u" \o ToString(k),
          text |-> "x" \o ToString(k)]

\* exa_result.citations for the lists a search may return
SearchResults == {[k \in 1..n |-> Citation(k)] : n \in 0..MaxCites}

\* the reply texts the LLM endpoint may send with a success status
ReplyFull == "{\"DATA_POINT\": 42, \"DATA_SOURCE_OVERVIEW\": \"s\"}"
ReplyPartial ==
    "{\"DATA_POINT\": 7, \"DATA_SOURCE_NAME\": \"llm\", \"component\": \"Z\"}"
ReplyArray == "[1]"
ReplyText == "not json"

ReplyTexts == {ReplyFull, ReplyPartial, ReplyArray, ReplyText}

\* the reply texts the brainstorm and decompose requests may get as well
ReplyFormulas == "{\"steps\": \"1.\", \"formula\": [\"f1\", \"f2\"]}"
ReplyComponents == "{\"components\": [\"A\", \"B\"]}"
ReplyComponentsString == "{\"components\": \"A\"}"

\* a JSON array and a JSON string as Python values
PyList(items) == [type |-> "list", items |-> items]
PyStr(t) == [type |-> "str", items |-> << t >>]

\* what requests.post may bring back: a success status with a reply text,
\* or a status raise_for_status raises on
Responses == {[status |-> 200, content |-> t] : t \in ReplyTexts}
             \cup {[status |-> 500, content |-> ""]}

\* what requests.post may bring back to the brainstorm and decompose
\* requests
HandlerResponses ==
    {[status |-> 200, content |-> t] :
        t \in {ReplyFormulas, ReplyComponents, ReplyComponentsString,
                ReplyFull, ReplyArray, ReplyText}}
    \cup {[status |-> 500, content |-> ""]}

\* the reply of a future whose request has not returned
NoReply == [status |-> 0, content |-> ""]

\* json.loads on the reply texts: the parsed value and its Python type,
\* or the JSONDecodeError
JsonLoads(t) ==
    CASE t = ReplyFull ->
           [exc |-> "none", type |-> "dict",
            val |-> [k \in {"DATA_POINT", "DATA_SOURCE_OVERVIEW"} |->
                       IF k = "DATA_POINT" THEN "42" ELSE "s"]]
      [] t = ReplyPartial ->
           [exc |-> "none", type |-> "dict",
            val |-> [k \in {"DATA_POINT", "DATA_SOURCE_NAME", "component"} |->
                       IF k = "DATA_POINT" THEN "7"
                       ELSE IF k = "DATA_SOURCE_NAME" THEN "llm" ELSE "Z"]]
      [] t = ReplyArray ->
           [exc |-> "none", type |-> "list", val |-> EmptyDict]
      [] t = ReplyFormulas ->
           [exc |-> "none", type |-> "dict",
            val |-> [k \in {"steps", "formula"} |->
                       IF k = "steps" THEN PyStr("1.")
                       ELSE PyList(<< "f1", "f2" >>)]]
      [] t = ReplyComponents ->
           [exc |-> "none", type |-> "dict",
            val |-> [k \in {"components"} |-> PyList(<< "A", "B" >>)]]
      [] t = ReplyComponentsString ->
           [exc |-> "none", type |-> "dict",
            val |-> [k \in {"components"} |-> PyStr("A")]]
      [] OTHER ->
           [exc |-> "JSONDecodeError", type |-> "none", val |-> EmptyDict]

(***************************************************************************)
(* ResearchSequenceTask.exa_data_extraction, in the two halves the LLM     *)
(* call splits it into.                                                    *)
(***************************************************************************)
AttrOf(output_key) ==
    CASE output_key = "DATA_SOURCE_NAME" -> "title"
      [] output_key = "DATA_SOURCE_LINK" -> "url"
      [] OTHER -> "text"

\* the dict comprehension over mapping: the three keys are always there,
\* with None for an attribute the citation has not
data_source(exa_answer_result) ==
    [output_key \in {"DATA_SOURCE_NAME", "DATA_SOURCE_LINK", "DATA_SOURCE_TEXT"} |->
        Getattr(exa_answer_result, AttrOf(output_key), None)]

\* the keyword arguments of the get_prompt call
synthesis_args(exa_answer_result, component) ==
    [text |-> DictGet(data_source(exa_answer_result), "DATA_SOURCE_TEXT", ""),
     component |-> component]

\* chat_response: raise_for_status, then the content of the first choice
chat_response(response) ==
    IF response.status # 200
    THEN [exc |-> "HTTPError", content |-> ""]
    ELSE [exc |-> "none", content |-> response.content]

\* the mutant of exa_data_extraction_result that falls back to the
\* citation fields when the reply is no JSON object
exa_data_extraction_lenient(exa_answer_result, component, response) ==
    LET chat == chat_response(response)
        synthesis_json == JsonLoads(chat.content)
        base == DictUnion([k \in {"component"} |-> component],
                          data_source(exa_answer_result))
    IN  IF chat.exc # "none" THEN [exc |-> chat.exc, value |-> EmptyDict]
        ELSE IF synthesis_json.exc # "none" \/ synthesis_json.type # "dict"
        THEN [exc |-> "none", value |-> base]
        ELSE [exc |-> "none", value |-> DictUnion(base, synthesis_json.val)]

\* lines 152-154: the reply is read, parsed and merged; the exception of
\* the first step that raises leaves the function
exa_data_extraction_result(exa_answer_result, component, response) ==
    LET chat == chat_response(response)
        synthesis_json == JsonLoads(chat.content)
    IN  IF chat.exc # "none" THEN [exc |-> chat.exc, value |-> EmptyDict]
        ELSE IF synthesis_json.exc # "none"
        THEN [exc |-> synthesis_json.exc, value |-> EmptyDict]
        ELSE IF synthesis_json.type # "dict"
        THEN [exc |-> "TypeError", value |-> EmptyDict]
        ELSE [exc |-> "none",
              value |-> DictUnion(DictUnion([k \in {"component"} |-> component],
                                            data_source(exa_answer_result)),
                                  synthesis_json.val)]

(***************************************************************************)
(* The state.                                                              *)
(***************************************************************************)
VARIABLES
    components,   \* the argument of run_exa_workflow_for_components_sequential
    idx,          \* the position of the for loop in components
    pc,           \* where the main thread is
    citations,    \* exa_result.citations of the component being processed
    futures,      \* the futures submitted to the executor, in submission order
    waiter,       \* as_completed: the futures that finished since it was called
    yielded,      \* as_completed: the futures it has handed to the loop
    results,      \* the local list of parallel_exa_extraction
    err,          \* the exception that is leaving run_exa_workflow
    all_results,  \* the dict being built
    searches,     \* history: the queries given to exa.answer
    runs,         \* history: how run_exa_workflow ended for each entry processed
    llm_calls,    \* history: the number of requests sent to the LLM endpoint
    completed,    \* history: the futures in the order they finished, while the
                  \* loop over as_completed may still take their results
    event,        \* lambda_handler: its argument
    hpc,          \* lambda_handler: where it is
    hreply,       \* lambda_handler: what the LLM endpoint answered its request
    returned,     \* lambda_handler: what it returned
    pname,        \* get_prompt: its argument name
    kwargs,       \* get_prompt: its keyword arguments
    rendered      \* get_prompt: how the call ended

\* the variables of the workflow, of the entry point and of a lone
\* get_prompt call
wvars == << components, idx, pc, citations, futures, waiter, yielded, results,
            err, all_results, searches, runs, llm_calls, completed >>

hvars == << event, hpc, hreply, returned >>

pvars == << pname, kwargs, rendered >>

vars == << wvars, hvars, pvars >>

\* event["body"]: what json.loads makes of it and what it holds under
\* "components"
BodyAbsent == [json |-> "absent", components |-> "absent", list |-> << >>]
BodyInvalid == [json |-> "invalid", components |-> "absent", list |-> << >>]
BodyArray == [json |-> "array", components |-> "absent", list |-> << >>]
BodyNoList == [json |-> "object", components |-> "str", list |-> << >>]
BodyList(l) == [json |-> "object", components |-> "list", list |-> l]

NoEvent == [httpMethod |-> "", action |-> "", param |-> "", body |-> BodyAbsent]

NoResponse == [statusCode |-> 0, body |-> << >>]

\* no request is being handled
HandlerIdle ==
    /\ event = NoEvent
    /\ hpc = "idle"
    /\ hreply = NoReply
    /\ returned = NoResponse

\* no lone get_prompt call is being made
PromptIdle ==
    /\ pname = ""
    /\ kwargs = EmptyDict
    /\ rendered = [exc |-> "not called", text |-> << >>]

RECURSIVE SeqsUpTo(_)
SeqsUpTo(n) ==
    IF n = 0 THEN {<< >>}
    ELSE SeqsUpTo(n - 1)
         \cup {Append(s, c) : s \in {t \in SeqsUpTo(n - 1) : Len(t) = n - 1}, c \in Names}

InputLists == SeqsUpTo(MaxComponents)

Init ==
    /\ components \in InputLists
    /\ idx = 1
    /\ pc = "loop"
    /\ citations = << >>
    /\ futures = << >>
    /\ waiter = << >>
    /\ yielded = {}
    /\ results = << >>
    /\ err = "none"
    /\ all_results = << >>
    /\ searches = << >>
    /\ runs = << >>
    /\ llm_calls = 0
    /\ completed = << >>
    /\ HandlerIdle
    /\ PromptIdle

component == components[idx]

Futures == 1..Len(futures)

InState(st) == {f \in Futures : futures[f].state = st}

(***************************************************************************)
(* The executor.                                                           *)
(***************************************************************************)
\* the mutant of max_workers: one worker per citation
max_workers_per_citation(exa_results) == Len(exa_results)

\* ThreadPoolExecutor() takes no max_workers: the pool has the default size
max_workers(exa_results) == DefaultMaxWorkers

\* the mutant of SubmitArg that hands every worker the first citation
SubmitFirst(exa_results, j) == exa_results[1]

\* the list comprehension of submit calls: the j-th future gets the j-th
\* element of exa_results
SubmitArg(exa_results, j) == exa_results[j]

\* the mutant of PoolJoined: shutdown(wait=False)
PoolNotJoined == TRUE

\* the mutant of PoolJoined: shutdown(wait=True, cancel_futures=True)
PoolJoinedCancelsPending == InState("RUNNING") = {}

\* leaving the with block is shutdown(wait=True): it returns when every
\* work item that was submitted has run
PoolJoined == \A f \in Futures : futures[f].state = "FINISHED"

\* the mutant of HandlerCatches: except requests.HTTPError
HandlerCatchesHTTPError(exc) == exc = "HTTPError"

\* except Exception catches every exception of the workflow
HandlerCatches(exc) == TRUE

\* the mutant of StoredList: "df or None"
StoredListOrNone(recs) == IF recs = << >> THEN NullMarker ELSE RecordList(recs)

\* all_results[component] = df
StoredList(recs) == RecordList(recs)

(***************************************************************************)
(* The main thread.                                                        *)
(***************************************************************************)
\* the mutant of SearchQuery that dresses the query up
SearchQueryDecorated(name) == name \o " market size"

\* run_exa_workflow(query=component, component=component): the query of
\* exa.answer is the name as it is
SearchQuery(name) == name

\* a pass of the for loop starts: run_exa_workflow calls exa_search
StartComponent ==
    /\ pc = "loop"
    /\ idx <= Len(components)
    /\ pc' = "search"
    /\ searches' = Append(searches, SearchQuery(component))
    /\ UNCHANGED << components, idx, citations, futures, waiter, yielded,
                    results, err, all_results, runs, llm_calls >>
    /\ UNCHANGED << completed, hvars, pvars >>

\* the for loop is exhausted: return all_results
Return ==
    /\ pc = "loop"
    /\ idx > Len(components)
    /\ pc' = "done"
    /\ UNCHANGED << components, idx, citations, futures, waiter, yielded,
                    results, err, all_results, searches, runs, llm_calls >>
    /\ UNCHANGED << completed, hvars, pvars >>

RECURSIVE SumCalls(_)
SumCalls(rs) == IF rs = << >> THEN 0 ELSE rs[1].calls + SumCalls(Tail(rs))

\* how a call of run_exa_workflow ended: the exception it raised or the
\* list it returned, the number of citations its search returned (-1 when
\* the search raised), the number of LLM requests sent during the call and
\* the number of extractions that raised
RunRecord(exc, ret, ncites) ==
    [exc |-> exc, ret |-> ret, ncites |-> ncites,
     calls |-> llm_calls - SumCalls(runs),
     failed |-> Cardinality({f \in Futures : futures[f].exc # "none"})]

\* the futures whose work item has not run to its end
Unfinished == SelectSeq(futures, LAMBDA fu : fu.state # "FINISHED")

\* run_exa_workflow raised exc: the except clause stores None and the loop
\* goes on, or the exception leaves the function
Failed(exc, ncites) ==
    /\ runs' = Append(runs, RunRecord(exc, << >>, ncites))
    /\ IF HandlerCatches(exc)
       THEN /\ all_results' = DictSet(all_results, component, NullMarker)
            /\ idx' = idx + 1
            /\ pc' = "loop"
            /\ err' = "none"
       ELSE /\ pc' = "raised"
            /\ err' = exc
            /\ UNCHANGED << all_results, idx >>

\* exa.answer returns: parallel_exa_extraction builds its executor
SearchReturns ==
    /\ pc = "search"
    /\ \E cs \in SearchResults : citations' = cs
    /\ pc' = "submit"
    /\ UNCHANGED << components, idx, futures, waiter, yielded, results, err,
                    all_results, searches, runs, llm_calls >>
    /\ UNCHANGED << completed, hvars, pvars >>

\* exa.answer raises
SearchFails ==
    /\ pc = "search"
    /\ Failed("SearchError", -1)
    /\ UNCHANGED << components, citations, futures, waiter, yielded, results,
                    searches, llm_calls >>
    /\ UNCHANGED << completed, hvars, pvars >>

\* executor.submit(self.exa_data_extraction, result, component): the work
\* item holds its two arguments
NewFuture(result) ==
    [owner |-> idx, result |-> result, component |-> component,
     state |-> "PENDING", calls |-> 0,
     prompt |-> << >>, reply |-> NoReply, exc |-> "none", value |-> EmptyDict]

\* executor.submit for the next element of exa_results
Submit ==
    /\ pc = "submit"
    /\ Len(futures) < Len(citations)
    /\ futures' = Append(futures, NewFuture(SubmitArg(citations, Len(futures) + 1)))
    /\ UNCHANGED << components, idx, pc, citations, waiter, yielded, results,
                    err, all_results, searches, runs, llm_calls >>
    /\ UNCHANGED << completed, hvars, pvars >>

\* as_completed(futures) is called: the futures that are finished by now
\* are its first batch, the others are waited for
BeginCollect ==
    /\ pc = "submit"
    /\ Len(futures) = Len(citations)
    /\ pc' = "collect"
    /\ UNCHANGED << components, idx, citations, futures, waiter, yielded,
                    results, err, all_results, searches, runs, llm_calls >>
    /\ UNCHANGED << completed, hvars, pvars >>

\* the futures that were finished when as_completed was called and are
\* still to be yielded: a set, iterated in no particular order
FirstBatch == {f \in InState("FINISHED") : f \notin yielded /\ f \notin Range(waiter)}

\* the mutant of NextYield that takes any finished future
NextYieldAnyFinished == InState("FINISHED") \ yielded

\* the futures as_completed may yield next
NextYield ==
    IF FirstBatch # {} THEN FirstBatch
    ELSE IF waiter # << >> THEN {Head(waiter)}
    ELSE {}

\* the mutant of Collect that drops a failed extraction and goes on
CollectSkipsFailures(f) ==
    /\ pc = "collect"
    /\ f \in NextYield
    /\ yielded' = yielded \cup {f}
    /\ waiter' = IF f \in FirstBatch THEN waiter ELSE Tail(waiter)
    /\ results' = IF futures[f].exc = "none"
                  THEN Append(results, futures[f].value) ELSE results
    /\ UNCHANGED << components, idx, pc, citations, futures, err, all_results,
                    searches, runs, llm_calls >>
    /\ UNCHANGED << completed, hvars, pvars >>

\* one pass of "for future in as_completed(futures)": future.result() is
\* appended, or raises the exception of the extraction
Collect(f) ==
    /\ pc = "collect"
    /\ f \in NextYield
    /\ yielded' = yielded \cup {f}
    /\ waiter' = IF f \in FirstBatch THEN waiter ELSE Tail(waiter)
    /\ IF futures[f].exc = "none"
       THEN /\ results' = Append(results, futures[f].value)
            /\ UNCHANGED << pc, err, completed >>
       ELSE /\ results' = << >>
            /\ err' = futures[f].exc
            /\ pc' = "exit"
            /\ completed' = << >>
    /\ UNCHANGED << components, idx, citations, futures, all_results,
                    searches, runs, llm_calls >>
    /\ UNCHANGED << hvars, pvars >>

\* run_exa_workflow is left: its locals are gone; a work item that has
\* not run to its end stays with its thread
Released ==
    /\ citations' = << >>
    /\ futures' = Unfinished
    /\ waiter' = << >>
    /\ yielded' = {}
    /\ results' = << >>
    /\ completed' = << >>

\* as_completed is exhausted, the with block is left, run_exa_workflow
\* returns results and the loop stores them
RunReturns ==
    /\ pc = "collect"
    /\ yielded = Futures
    /\ PoolJoined
    /\ all_results' = DictSet(all_results, component, StoredList(results))
    /\ runs' = Append(runs, RunRecord("none", results, Len(citations)))
    /\ idx' = idx + 1
    /\ pc' = "loop"
    /\ Released
    /\ UNCHANGED << components, err, searches, llm_calls >>
    /\ UNCHANGED << hvars, pvars >>

\* the exception of future.result() leaves the with block, then
\* run_exa_workflow, and reaches the except clause of the loop
RunRaises ==
    /\ pc = "exit"
    /\ PoolJoined
    /\ Failed(err, Len(citations))
    /\ Released
    /\ UNCHANGED << components, searches, llm_calls >>
    /\ UNCHANGED << hvars, pvars >>

(***************************************************************************)
(* The worker threads.                                                     *)
(***************************************************************************)
\* a worker takes the oldest queued work item and runs exa_data_extraction
\* up to the request of chat_response
WorkerStart(f) ==
    /\ f \in InState("PENDING")
    /\ \A g \in InState("PENDING") : f <= g
    /\ Cardinality(InState("RUNNING")) < max_workers(citations)
    /\ futures' = [futures EXCEPT ![f] =
          [@ EXCEPT !.state = "RUNNING",
                    !.calls = @ + 1,
                    !.prompt = get_prompt("exa_synthesis_prompt",
                                          synthesis_args(futures[f].result,
                                                         futures[f].component)).text]]
    /\ llm_calls' = llm_calls + 1
    /\ UNCHANGED << components, idx, pc, citations, waiter, yielded, results,
                    err, all_results, searches, runs >>
    /\ UNCHANGED << completed, hvars, pvars >>

\* the request returns and exa_data_extraction runs to its end
WorkerFinish(f) ==
    /\ f \in InState("RUNNING")
    /\ \E response \in Responses :
          LET out == exa_data_extraction_result(futures[f].result,
                                                futures[f].component, response)
          IN  futures' = [futures EXCEPT ![f] =
                 [@ EXCEPT !.state = "FINISHED", !.reply = response,
                           !.exc = out.exc, !.value = out.value]]
    /\ waiter' = IF pc = "collect" THEN Append(waiter, f) ELSE waiter
    /\ completed' = IF pc \in {"submit", "collect"}
                    THEN Append(completed, [future |-> f, seen |-> pc])
                    ELSE completed
    /\ UNCHANGED << components, idx, pc, citations, yielded, results, err,
                    all_results, searches, runs, llm_calls >>
    /\ UNCHANGED << hvars, pvars >>

Next ==
    \/ StartComponent
    \/ Return
    \/ SearchReturns
    \/ SearchFails
    \/ Submit
    \/ BeginCollect
    \/ \E f \in Futures : Collect(f)
    \/ RunReturns
    \/ RunRaises
    \/ \E f \in Futures : WorkerStart(f)
    \/ \E f \in Futures : WorkerFinish(f)

Spec == Init /\ [][Next]_vars

\* no list is being processed
WorkflowIdle ==
    /\ components = << >>
    /\ idx = 1
    /\ pc = "idle"
    /\ citations = << >>
    /\ futures = << >>
    /\ waiter = << >>
    /\ yielded = {}
    /\ results = << >>
    /\ err = "none"
    /\ all_results = << >>
    /\ searches = << >>
    /\ runs = << >>
    /\ llm_calls = 0
    /\ completed = << >>

(***************************************************************************)
(* The workflow with its scheduling: the main thread takes the step it can *)
(* take, and an idle pool thread takes the work item at the head of the    *)
(* queue.  Nothing is assumed of the two endpoints: a search or an LLM     *)
(* request may stay unanswered for ever.                                   *)
(***************************************************************************)
InitLive == Init /\ Len(components) <= MaxLiveComponents

MainThread ==
    \/ StartComponent
    \/ Return
    \/ Submit
    \/ BeginCollect
    \/ \E f \in Futures : Collect(f)
    \/ RunReturns
    \/ RunRaises

PoolThreads == \E f \in Futures : WorkerStart(f)

FairSpec ==
    InitLive /\ [][Next]_vars /\ WF_vars(MainThread) /\ WF_vars(PoolThreads)

(***************************************************************************)
(* The two single LLM operations of ResearchSequenceTask the entry point   *)
(* calls, from the answer of requests.post on.                             *)
(***************************************************************************)
\* the mutant of generate_market_formulas that recovers from a failed
\* request with no formulas
generate_market_formulas_recovering(response) ==
    LET chat == chat_response(response)
        data == JsonLoads(chat.content)
    IN  IF chat.exc # "none" THEN [exc |-> "none", value |-> PyList(<< >>)]
        ELSE IF data.exc # "none" THEN [exc |-> data.exc, value |-> PyList(<< >>)]
        ELSE IF data.type # "dict"
        THEN [exc |-> "AttributeError", value |-> PyList(<< >>)]
        ELSE [exc |-> "none", value |-> DictGet(data.val, "formula", PyList(<< >>))]

\* generate_market_formulas: chat_response, json.loads, data.get; the
\* first step that raises leaves the function
generate_market_formulas(response) ==
    LET chat == chat_response(response)
        data == JsonLoads(chat.content)
    IN  IF chat.exc # "none" THEN [exc |-> chat.exc, value |-> PyList(<< >>)]
        ELSE IF data.exc # "none" THEN [exc |-> data.exc, value |-> PyList(<< >>)]
        ELSE IF data.type # "dict"
        THEN [exc |-> "AttributeError", value |-> PyList(<< >>)]
        ELSE [exc |-> "none", value |-> DictGet(data.val, "formula", PyList(<< >>))]

\* get_components_from_formula: the same, and a value under "components"
\* that is no list gives the empty list
get_components_from_formula(response) ==
    LET chat == chat_response(response)
        data == JsonLoads(chat.content)
        found == DictGet(data.val, "components", PyList(<< >>))
    IN  IF chat.exc # "none" THEN [exc |-> chat.exc, value |-> PyList(<< >>)]
        ELSE IF data.exc # "none" THEN [exc |-> data.exc, value |-> PyList(<< >>)]
        ELSE IF data.type # "dict"
        THEN [exc |-> "AttributeError", value |-> PyList(<< >>)]
        ELSE IF found.type # "list" THEN [exc |-> "none", value |-> PyList(<< >>)]
        ELSE [exc |-> "none", value |-> found]

(***************************************************************************)
(* lambda_handler, in the steps its blocking calls split it into.          *)
(***************************************************************************)
\* json.dumps of None and of a list of records
JsonValue(v) ==
    IF v.null THEN [json |-> "null", items |-> << >>]
    ELSE [json |-> "array", items |-> v.recs]

\* json.dumps(body_dict): the mapping under "datasources" keeps its keys
\* in insertion order
JsonDumps(body_dict) ==
    [k \in DOMAIN body_dict |->
        IF k = "datasources"
        THEN [i \in 1..Len(body_dict[k]) |->
                [key |-> body_dict[k][i].key,
                 val |-> JsonValue(body_dict[k][i].val)]]
        ELSE body_dict[k]]

_response(status_code, body_dict) ==
    [statusCode |-> status_code, body |-> JsonDumps(body_dict)]

\* return _response(status_code, {key: value})
HandlerReturns(status_code, key, value) ==
    /\ hpc' = "returned"
    /\ returned' = _response(status_code, [k \in {key} |-> value])

\* an exception leaves lambda_handler
HandlerRaises ==
    /\ hpc' = "raised"
    /\ UNCHANGED returned

\* lines 15-16
HandleOptions ==
    /\ hpc = "start"
    /\ event.httpMethod = "OPTIONS"
    /\ HandlerReturns(200, "message", "OK")
    /\ UNCHANGED << wvars, event, hreply, pvars >>

\* lines 21-23 and 63-64
HandleNoAction ==
    /\ hpc = "start"
    /\ event.httpMethod # "OPTIONS"
    /\ event.action \notin {"brainstorm", "decompose", "datasource"}
    /\ IF event.action = ""
       THEN HandlerReturns(400, "error", "Missing required query parameter: action")
       ELSE HandlerReturns(400, "error", "Unknown action: " \o event.action)
    /\ UNCHANGED << wvars, event, hreply, pvars >>

\* the template and the parameter of the action's request
PromptOf(action) ==
    IF action = "brainstorm"
    THEN [name |-> "formula_brainstorm_prompt", parameter |-> "market_description"]
    ELSE [name |-> "decompose_formula_prompt", parameter |-> "formula"]

\* lines 27-31 and 34-38, up to requests.post
HandleSingle ==
    /\ hpc = "start"
    /\ event.httpMethod # "OPTIONS"
    /\ event.action \in {"brainstorm", "decompose"}
    /\ IF event.param = ""
       THEN /\ HandlerReturns(400, "error", "Missing '"
                                 \o PromptOf(event.action).parameter
                                 \o "' for " \o event.action \o " action")
            /\ UNCHANGED pvars
       ELSE /\ pname' = PromptOf(event.action).name
            /\ kwargs' = [k \in {PromptOf(event.action).parameter} |-> event.param]
            /\ rendered' = get_prompt(pname', kwargs')
            /\ IF rendered'.exc # "none" THEN HandlerRaises
               ELSE hpc' = "llm" /\ UNCHANGED returned
    /\ UNCHANGED << wvars, event, hreply >>

\* requests.post answers; lines 31-32 and 38-39
LLMReturns ==
    /\ hpc = "llm"
    /\ \E response \in HandlerResponses :
          LET out == IF event.action = "brainstorm"
                     THEN generate_market_formulas(response)
                     ELSE get_components_from_formula(response)
          IN  /\ hreply' = response
              /\ IF out.exc # "none" THEN HandlerRaises
                 ELSE HandlerReturns(200, IF event.action = "brainstorm"
                                          THEN "formulas" ELSE "components",
                                     out.value)
    /\ UNCHANGED << wvars, event, pvars >>

\* lines 41-60, up to the call of the batch
HandleDatasource ==
    /\ hpc = "start"
    /\ event.httpMethod # "OPTIONS"
    /\ event.action = "datasource"
    /\ IF event.body.json = "invalid"
       THEN /\ HandlerReturns(400, "error", "Invalid JSON in request body")
            /\ UNCHANGED wvars
       ELSE IF event.body.json = "array"
       THEN HandlerRaises /\ UNCHANGED wvars
       ELSE IF event.body.components # "list"
       THEN /\ HandlerReturns(400, "error",
                              "'components' must be a list in the request body")
            /\ UNCHANGED wvars
       ELSE /\ hpc' = "batch"
            /\ components' = event.body.list
            /\ idx' = 1
            /\ pc' = "loop"
            /\ all_results' = << >>
            /\ UNCHANGED << returned, citations, futures, waiter, yielded,
                            results, err, searches, runs, llm_calls, completed >>
    /\ UNCHANGED << event, hreply, pvars >>

\* line 61, when run_exa_workflow_for_components_sequential has ended
BatchReturns ==
    /\ hpc = "batch"
    /\ pc \in {"done", "raised"}
    /\ IF pc = "done" THEN HandlerReturns(200, "datasources", all_results)
       ELSE HandlerRaises
    /\ UNCHANGED << wvars, event, hreply, pvars >>

Methods == {"OPTIONS", "POST"}

Actions == {"", "brainstorm", "decompose", "datasource", "other"}

Bodies == {BodyAbsent, BodyInvalid, BodyArray, BodyNoList}
          \cup {BodyList(l) : l \in InputLists}

\* the requests tried; what an action does not read is left out
Events ==
    {e \in [httpMethod : Methods, action : Actions, param : {"", "p"}, body : Bodies] :
        /\ e.action \notin {"brainstorm", "decompose"} => e.param = ""
        /\ e.action # "datasource" => e.body = BodyAbsent}

InitHandler ==
    /\ WorkflowIdle
    /\ PromptIdle
    /\ event \in Events
    /\ hpc = "start"
    /\ hreply = NoReply
    /\ returned = NoResponse

NextHandler ==
    \/ HandleOptions
    \/ HandleNoAction
    \/ HandleSingle
    \/ LLMReturns
    \/ HandleDatasource
    \/ BatchReturns
    \/ Next

SpecHandler == InitHandler /\ [][NextHandler]_vars

(***************************************************************************)
(* A lone call of PromptFactory.get_prompt, for every name and every set   *)
(* of keyword arguments of the sets below.                                 *)
(***************************************************************************)
\* the names tried: the five of router and some that are not
PromptNames ==
    Range(RouterKeys) \cup {"", "unknown_prompt", "Datasource_Prompt"}

\* the keywords tried: the parameters of the templates and one that is
\* nobody's parameter
Keywords == {"market_description", "formula", "text", "component", "extra"}

ArgValues == {"v", ""}

KeywordArgs == UNION {[ks -> ArgValues] : ks \in SUBSET Keywords}

InitPrompt ==
    /\ WorkflowIdle
    /\ HandlerIdle
    /\ pname \in PromptNames
    /\ kwargs \in KeywordArgs
    /\ rendered = [exc |-> "not called", text |-> << >>]

\* PromptFactory.get_prompt(pname, **kwargs)
GetPrompt ==
    /\ rendered.exc = "not called"
    /\ rendered' = get_prompt(pname, kwargs)
    /\ UNCHANGED << wvars, hvars, pname, kwargs >>

NextPrompt == GetPrompt

SpecPrompt == InitPrompt /\ [][NextPrompt]_vars

(***************************************************************************)
(* What the properties below speak of.                                     *)
(***************************************************************************)
Processed == 1..Len(runs)

\* entry j of components is the last one processed so far with its name
LastOcc(j) == \A i \in Processed : i > j => components[i] # components[j]

\* what the mapping holds for a call of run_exa_workflow that ended as runs[j]
Expected(j) == IF runs[j].exc # "none" THEN NullMarker ELSE RecordList(runs[j].ret)

InRun == pc \in {"submit", "collect", "exit"}

RECURSIVE Dedup(_)
Dedup(s) ==
    IF s = << >> THEN << >>
    ELSE LET front == SubSeq(s, 1, Len(s) - 1)
             last == s[Len(s)]
         IN  IF last \in Range(front) THEN Dedup(front)
             ELSE Append(Dedup(front), last)

SeqToBag(s) == [v \in Range(s) |-> Cardinality({i \in 1..Len(s) : s[i] = v})]

RequiredKeys == {"DATA_POINT", "DATA_SOURCE_OVERVIEW"}

JsonObjectTexts == {ReplyFull, ReplyPartial}

IsJsonObject(reply) == reply.status = 200 /\ reply.content \in JsonObjectTexts

(***************************************************************************)
(* C1: a component whose workflow raises (its search or one of its         *)
(* extractions) gets the null marker under its key and the loop goes on    *)
(* with the next entry; a component whose workflow returns gets the list   *)
(* it returned; no exception leaves the function.                          *)
(***************************************************************************)
C1_FailureIsolated ==
    /\ pc # "raised"
    /\ Len(runs) = idx - 1
    /\ pc = "done" => Len(runs) = Len(components)
    /\ \A j \in Processed :
          /\ HasKey(all_results, components[j])
          /\ LastOcc(j) => Lookup(all_results, components[j]) = Expected(j)

C1_Witness ==
    /\ pc = "done"
    /\ \E i, j \in Processed :
          /\ i < j
          /\ components[i] # components[j]
          /\ runs[i].exc # "none"
          /\ runs[j].exc = "none" /\ runs[j].ret # << >>
          /\ Lookup(all_results, components[i]) = NullMarker
          /\ Lookup(all_results, components[j]) = RecordList(runs[j].ret)

C3_LastWriteWins ==
    /\ \A c \in Names :
          Cardinality({j \in 1..Len(all_results) : all_results[j].key = c})
             = IF \E j \in Processed : components[j] = c THEN 1 ELSE 0
    /\ \A j \in Processed :
          /\ searches[j] = components[j]
          /\ runs[j].ncites >= 0 => runs[j].calls = runs[j].ncites
          /\ LastOcc(j) => Lookup(all_results, components[j]) = Expected(j)
    /\ Len(searches) = IF pc \in {"loop", "done", "raised"} THEN Len(runs)
                       ELSE Len(runs) + 1

C3_Witness ==
    /\ pc = "done"
    /\ \E i, j \in Processed :
          /\ i < j
          /\ components[i] = components[j]
          /\ LastOcc(j)
          /\ runs[i].exc = "none" /\ runs[i].ret # << >>
          /\ runs[j].exc # "none"
          /\ Lookup(all_results, components[j]) = NullMarker

(***************************************************************************)
(* C4: a work item that has not run to its end belongs to the component    *)
(* the loop is at, and the main thread is inside that component's          *)
(* parallel_exa_extraction: nothing of a later component (its search, its  *)
(* workers) runs beside it.                                                *)
(***************************************************************************)
C4_Sequential ==
    \A f \in Futures :
       futures[f].state # "FINISHED" => (InRun /\ futures[f].owner = idx)

C4_Witness ==
    /\ pc = "exit"
    /\ idx < Len(components)
    /\ InState("RUNNING") # {}
    /\ InState("PENDING") # {}

(***************************************************************************)
(* C5: when an extraction of a component raised, run_exa_workflow raised   *)
(* and returned nothing, and the entry of the component is the null        *)
(* marker; the exception is the one of a future the loop was handed.       *)
(***************************************************************************)
C5_NoPartialResults ==
    /\ \A j \in Processed :
          runs[j].failed > 0 =>
             /\ runs[j].exc # "none"
             /\ runs[j].ret = << >>
             /\ LastOcc(j) => Lookup(all_results, components[j]) = NullMarker
    /\ pc = "exit" =>
          /\ results = << >>
          /\ \E f \in yielded : futures[f].exc # "none" /\ futures[f].exc = err

C5_Witness ==
    /\ pc = "loop"
    /\ \E j \in Processed :
          /\ LastOcc(j)
          /\ runs[j].failed > 0
          /\ runs[j].failed < runs[j].ncites
          /\ Lookup(all_results, components[j]) = NullMarker

(***************************************************************************)
(* C6: a search that returns no citation makes run_exa_workflow return     *)
(* the empty list, without an LLM request, and the entry is the empty      *)
(* list, not the null marker.                                              *)
(***************************************************************************)
C6_ZeroCitations ==
    /\ \A j \in Processed :
          runs[j].ncites = 0 =>
             /\ runs[j].exc = "none"
             /\ runs[j].ret = << >>
             /\ runs[j].calls = 0
             /\ LastOcc(j) =>
                   /\ Lookup(all_results, components[j]) = RecordList(<< >>)
                   /\ Lookup(all_results, components[j]) # NullMarker
    /\ (InRun /\ citations = << >>) => futures = << >>

C6_Witness ==
    /\ pc = "done"
    /\ \E j \in Processed :
          /\ LastOcc(j)
          /\ runs[j].ncites = 0
          /\ Lookup(all_results, components[j]) = RecordList(<< >>)

(***************************************************************************)
(* C7: every citation is handed to one future, a future runs               *)
(* exa_data_extraction at most once, and when run_exa_workflow returns     *)
(* for n citations the list holds n records, one for each citation: the    *)
(* records of the list are the results of the futures.                     *)
(***************************************************************************)
C7_OneRecordPerCitation ==
    /\ InRun =>
          /\ Len(futures) <= Len(citations)
          /\ \A f \in Futures :
                /\ futures[f].result = citations[f]
                /\ futures[f].calls = IF futures[f].state = "PENDING" THEN 0 ELSE 1
    /\ (pc = "collect" /\ yielded = Futures) =>
          /\ Len(futures) = Len(citations)
          /\ SeqToBag(results) = SeqToBag([f \in Futures |-> futures[f].value])
    /\ \A j \in Processed :
          runs[j].exc = "none" =>
             /\ Len(runs[j].ret) = runs[j].ncites
             /\ runs[j].calls = runs[j].ncites
             /\ \A k \in 1..runs[j].ncites :
                   Cardinality({i \in 1..Len(runs[j].ret) :
                       runs[j].ret[i]["DATA_SOURCE_LINK"] = Citation(k).url}) = 1

C7_Witness ==
    /\ pc = "loop"
    /\ \E j \in Processed :
          /\ runs[j].exc = "none"
          /\ runs[j].ncites >= 2
          /\ Len(runs[j].ret) = runs[j].ncites
          /\ Lookup(all_results, components[j]) = RecordList(runs[j].ret)

(***************************************************************************)
(* C8, as claimed: the pool has one worker per citation, so an extraction  *)
(* that has been submitted never waits for another one to finish: a        *)
(* worker can take it.                                                     *)
(***************************************************************************)
C8_NoExtractionWaits ==
    InState("PENDING") # {} => ENABLED (\E f \in Futures : WorkerStart(f))

(***************************************************************************)
(* C8, amended: the pool has the default size whatever the number of       *)
(* citations: the extractions in flight are never more than the smaller    *)
(* of the two, and an extraction waits in the queue exactly when that      *)
(* many are in flight and the pool is full.                                *)
(***************************************************************************)
C8_PoolHasDefaultSize ==
    /\ Cardinality(InState("RUNNING")) <= Min(Len(citations), DefaultMaxWorkers)
    /\ InState("PENDING") # {} =>
          ((ENABLED (\E f \in Futures : WorkerStart(f)))
              <=> Cardinality(InState("RUNNING")) < DefaultMaxWorkers)

C8_Witness ==
    /\ pc = "collect"
    /\ Len(citations) > DefaultMaxWorkers
    /\ Cardinality(InState("RUNNING")) = DefaultMaxWorkers
    /\ InState("PENDING") # {}

C10_ReplyWinsOnCollision ==
    \A f \in InState("FINISHED") :
       futures[f].exc = "none" =>
          LET fields == data_source(futures[f].result)
              reply == JsonLoads(futures[f].reply.content).val
              rec == futures[f].value
          IN  /\ DOMAIN rec = {"component"} \cup DOMAIN fields \cup DOMAIN reply
              /\ \A k \in DOMAIN fields \cap DOMAIN reply : rec[k] = reply[k]
              /\ \A k \in DOMAIN fields \ DOMAIN reply : rec[k] = fields[k]
              /\ \A k \in DOMAIN reply \ DOMAIN fields : rec[k] = reply[k]
              /\ "component" \notin DOMAIN reply =>
                    rec["component"] = futures[f].component

C10_Witness ==
    \E f \in InState("FINISHED") :
       /\ f \in yielded
       /\ futures[f].exc = "none"
       /\ futures[f].reply.content = ReplyPartial
       /\ "title" \in DOMAIN futures[f].result
       /\ futures[f].value["DATA_SOURCE_NAME"] = "llm"
       /\ futures[f].value["DATA_SOURCE_LINK"] = futures[f].result.url
       /\ futures[f].value["DATA_POINT"] = "7"
       /\ futures[f].value \in Range(results)

(***************************************************************************)
(* The order of the records and the order of completion.                   *)
(***************************************************************************)
\* the future whose result is the i-th record of results
FutureOfRecord(i) == CHOOSE f \in Futures : futures[f].value = results[i]

\* the place of a finished future in the order of completion
PosDone(f) == CHOOSE i \in 1..Len(completed) : completed[i].future = f

\* the future finished before as_completed was called
Early(f) == completed[PosDone(f)].seen = "submit"

(***************************************************************************)
(* C14, as claimed: the records are in the order in which the workers      *)
(* completed.                                                              *)
(***************************************************************************)
C14_CompletionOrder ==
    pc = "collect" =>
       \A i, j \in 1..Len(results) :
          i < j => PosDone(FutureOfRecord(i)) < PosDone(FutureOfRecord(j))

(***************************************************************************)
(* C14, amended: every record is the result of a future that has finished  *)
(* and been yielded, one record per yielded future; the futures that       *)
(* finished before as_completed was called come first, in any order, and   *)
(* the futures that finished later follow in the order they finished.      *)
(***************************************************************************)
C14_YieldOrder ==
    pc = "collect" =>
       /\ Len(results) = Cardinality(yielded)
       /\ \A i \in 1..Len(results) :
             \E f \in yielded :
                /\ futures[f].state = "FINISHED"
                /\ futures[f].value = results[i]
                /\ \E k \in 1..Len(completed) : completed[k].future = f
       /\ \A i, j \in 1..Len(results) :
             i < j =>
                LET f == FutureOfRecord(i)
                    g == FutureOfRecord(j)
                IN  /\ Early(g) => Early(f)
                    /\ (~Early(f) /\ ~Early(g)) => PosDone(f) < PosDone(g)

C14_Witness ==
    /\ pc = "collect"
    /\ Len(results) >= 2
    /\ results[1]["DATA_SOURCE_LINK"] = Citation(2).url
    /\ results[2]["DATA_SOURCE_LINK"] = Citation(1).url
    /\ PosDone(FutureOfRecord(2)) < PosDone(FutureOfRecord(1))

(***************************************************************************)
(* C15: every entry of the list that the loop has started has one search   *)
(* call, whose query is the name of the entry as it is; while that call    *)
(* is out no extraction of the entry exists and no LLM request has been    *)
(* sent for it; an entry whose search raised never gets one.               *)
(***************************************************************************)
C15_OneSearchFirst ==
    /\ Len(searches) = IF pc \in {"loop", "done", "raised"} THEN Len(runs)
                       ELSE Len(runs) + 1
    /\ \A j \in 1..Len(searches) : searches[j] = components[j]
    /\ pc = "search" => (futures = << >> /\ llm_calls = SumCalls(runs))
    /\ \A f \in Futures : InRun /\ futures[f].owner = Len(searches)
    /\ \A j \in Processed :
          runs[j].ncites = -1 =>
             /\ runs[j].exc = "SearchError"
             /\ runs[j].calls = 0
             /\ runs[j].failed = 0

C15_Witness ==
    /\ pc = "done"
    /\ searches = components
    /\ \E i, j \in Processed :
          /\ runs[i].ncites = -1 /\ runs[i].calls = 0
          /\ runs[j].ncites >= 1 /\ runs[j].calls = runs[j].ncites
          /\ llm_calls = runs[j].calls

(***************************************************************************)
(* C16, as claimed: for a citation that has no text, the synthesis prompt  *)
(* is rendered with the empty string as its text.                          *)
(***************************************************************************)
C16_TextOrEmpty ==
    \A f \in Futures :
       (futures[f].state # "PENDING" /\ "text" \notin DOMAIN futures[f].result)
          => futures[f].prompt = exa_synthesis_prompt("", futures[f].component)

(***************************************************************************)
(* C18, as claimed: every record of the list stored under a key has that   *)
(* key as its component field.                                             *)
(***************************************************************************)
C18_ComponentFieldIsKey ==
    \A j \in 1..Len(all_results) :
       \A i \in 1..Len(all_results[j].val.recs) :
          all_results[j].val.recs[i]["component"] = all_results[j].key

(***************************************************************************)
(* C19: an extraction that raises cancels nothing: while the exception     *)
(* is on its way out every citation still has its work item, a queued one  *)
(* is still taken by a free worker, and the exception leaves the run only  *)
(* when all of them have run; a run that got n citations has sent n LLM    *)
(* requests, whether it returned or raised.                                *)
(***************************************************************************)
C19_NothingCancelled ==
    /\ pc = "exit" =>
          /\ Len(futures) = Len(citations)
          /\ InState("PENDING") \cup InState("RUNNING") # {} => ~ENABLED RunRaises
          /\ (InState("PENDING") # {}
                 /\ Cardinality(InState("RUNNING")) < DefaultMaxWorkers)
                => ENABLED (\E f \in Futures : WorkerStart(f))
    /\ \A j \in Processed :
          runs[j].ncites >= 0 => runs[j].calls = runs[j].ncites

C19_Witness ==
    /\ pc = "done"
    /\ \E j \in Processed :
          /\ runs[j].exc \notin {"none", "SearchError"}
          /\ runs[j].ncites > DefaultMaxWorkers
          /\ runs[j].failed = 1
          /\ runs[j].calls = runs[j].ncites

(***************************************************************************)
(* C11: get_prompt with a name that is none of the five raises ValueError  *)
(* and nothing else, whatever the keyword arguments, and the message       *)
(* holds the five names.                                                   *)
(***************************************************************************)
C11_UnknownNameIsValueError ==
    (rendered.exc # "not called" /\ pname \notin Range(RouterKeys)) =>
       /\ rendered.exc = "ValueError"
       /\ Cardinality(Range(RouterKeys)) = 5
       /\ Range(RouterKeys) \subseteq Range(rendered.text)
       /\ pname \in Range(rendered.text)

C11_Witness ==
    /\ rendered.exc = "ValueError"
    /\ pname = "unknown_prompt"
    /\ DOMAIN kwargs = {"formula", "extra"}

(***************************************************************************)
(* C12: get_prompt with one of the five names and exactly the parameters   *)
(* of its template returns a prompt with the arguments in it; with a       *)
(* parameter left out it raises and returns no prompt.                     *)
(***************************************************************************)
C12_ExactArgumentsOrFailure ==
    (rendered.exc # "not called" /\ pname \in Range(RouterKeys)) =>
       /\ DOMAIN kwargs = Parameters(pname) =>
             /\ rendered.exc = "none"
             /\ rendered.text # << >>
             /\ \A a \in Parameters(pname) : kwargs[a] \in Range(rendered.text)
       /\ (\E a \in Parameters(pname) : a \notin DOMAIN kwargs) =>
             /\ rendered.exc = "TypeError"
             /\ rendered.text = << >>

C12_Witness ==
    /\ pname = "exa_synthesis_prompt"
    /\ DOMAIN kwargs = {"component"}
    /\ rendered.exc = "TypeError"

(***************************************************************************)
(* C13: a datasource request with a list of components ends with status    *)
(* 200 and a mapping that holds null for exactly the components whose run  *)
(* failed, whichever they are; a brainstorm or decompose request whose LLM *)
(* request fails ends with the exception leaving the handler and no        *)
(* response.                                                               *)
(***************************************************************************)
C13_BatchRecoversSingleDoesNot ==
    /\ (/\ hpc \in {"batch", "returned", "raised"}
        /\ event.httpMethod # "OPTIONS"
        /\ event.action = "datasource"
        /\ event.body.json = "object"
        /\ event.body.components = "list") =>
          /\ hpc # "raised"
          /\ components = event.body.list
          /\ hpc = "returned" =>
                /\ returned.statusCode = 200
                /\ Len(runs) = Len(components)
                /\ LET datasources == returned.body["datasources"]
                   IN  /\ Keys(datasources) = Dedup(components)
                       /\ \A j \in 1..Len(components) :
                             LastOcc(j) =>
                                Lookup(datasources, components[j])
                                   = IF runs[j].exc # "none"
                                     THEN [json |-> "null", items |-> << >>]
                                     ELSE [json |-> "array", items |-> runs[j].ret]
    /\ (event.action \in {"brainstorm", "decompose"} /\ hreply.status \notin {0, 200}) =>
          /\ hpc = "raised"
          /\ returned.statusCode = 0

C13_Witness ==
    /\ hpc = "returned"
    /\ event.action = "datasource"
    /\ returned.statusCode = 200
    /\ Len(components) = 2
    /\ components[1] # components[2]
    /\ runs[1].exc # "none"
    /\ runs[2].exc = "none" /\ runs[2].ret # << >>
    /\ returned.body["datasources"][1].val.json = "null"
    /\ returned.body["datasources"][2].val.json = "array"

(***************************************************************************)
(* C17: when every search and every LLM request is answered in the end     *)
(* (with a result or a failure), run_exa_workflow_for_components_sequential*)
(* returns in the end, with an entry for every name of the list; and when  *)
(* the request of some work item is never answered, the main thread stays  *)
(* inside parallel_exa_extraction for that component for ever and the      *)
(* function never returns.                                                 *)
(***************************************************************************)
Requesting(f) == f \in Futures /\ futures[f].state = "RUNNING"

EveryCallReturns ==
    /\ []<>(pc # "search")
    /\ \A f \in 1..MaxCites : []<>~Requesting(f)

C17_ReturnsIffCallsReturn ==
    /\ EveryCallReturns =>
          <>(pc = "done" /\ Keys(all_results) = Dedup(components))
    /\ <>[](pc = "search") => [](pc # "done")
    /\ \A f \in 1..MaxCites :
          <>[]Requesting(f) => ([](pc # "done") /\ <>[]InRun)

C17_Witness ==
    /\ pc = "done"
    /\ components # << >>
    /\ runs[Len(runs)].ncites >= 2
    /\ runs[Len(runs)].calls = runs[Len(runs)].ncites

====
